---- MODULE Spec2Model ----
(***************************************************************************)
(* The AST front-end of the yex bytecode compiler                          *)
(* (src/front/src/compiler/mod.rs) as a state machine.                     *)
(*                                                                         *)
(* The compiler is a recursive tree walk.  The recursion is unfolded onto  *)
(* an explicit stack of continuation frames (work): one action is the      *)
(* straight-line code of one function between two recursive calls of       *)
(* expr / match_pattern / lambda_expr.  The AST is the input: it is read   *)
(* node by node, in the order the walk visits it, and every node is drawn  *)
(* from the bounded alphabet of the input family chosen in Init.           *)
(*                                                                         *)
(* Source locations (line, column) of instructions are carried through by  *)
(* the code unchanged and are left out.                                    *)
(***************************************************************************)
EXTENDS Integers, Sequences, FiniteSets, TLC

(* ------------------------------ bounds --------------------------------- *)
\* AST nodes (expressions and patterns) of one compilation, mixed family
MaxNodes == 3
\* arguments / elements / arms / members / variants of one node
MaxArgs == 2

VARIABLES
  scope_stack,     \* Compiler.scope_stack : Vec<Scope>
  constants,       \* Compiler.constants : Vec<Value>
  unique_counter,  \* Compiler.unique_counter
  modules,         \* the GcRef<YexModule> objects allocated so far
  work,            \* continuation frames of the recursive walk, top first
  ret,             \* value returned by the call that returned last
  pc,              \* "new" | "running" | "done"
  output,          \* what compile_expr / compile_stmts returned
  spare,           \* AST nodes the input may still add
  family,          \* the input family of this compilation
  last,            \* name of the step taken last
  snap,            \* what the step taken last recorded about its construct
  input,           \* the AST nodes read so far, in visiting order
  marks,           \* where the constructs of the open buffers lie in them
  vm,              \* the machine that runs the returned unit
  host             \* a unit that opened the returned unit, after the splice

vars == <<scope_stack, constants, unique_counter, modules, work, ret, pc,
          output, spare, family, last, snap, input, marks, vm, host>>

(* ----------------------------- data model ------------------------------ *)
EmptyMap == [x \in {} |-> 0]

MapPut(m, k, v) == [x \in DOMAIN m \cup {k} |-> IF x = k THEN v ELSE m[x]]

MapRemove(m, k) == [x \in DOMAIN m \ {k} |-> m[x]]

\* OpCode: opcode name, numeric operand, symbol operand
Op(o) == [op |-> o, a |-> 0, s |-> ""]

OpA(o, n) == [op |-> o, a |-> n, s |-> ""]

OpS(o, sym) == [op |-> o, a |-> 0, s |-> sym]

\* Value: t is the variant; n a number, an arity or a module handle;
\* s a string, a symbol or a tag; body the bytecode of a function
Val(t, n, s, body) == [t |-> t, n |-> n, s |-> s, body |-> body]

Num(n) == Val("Num", n, "", <<>>)

Str(s) == Val("Str", 0, s, <<>>)

Sym(s) == Val("Sym", 0, s, <<>>)

EmptyList == Val("List", 0, "", <<>>)

Fn(body, arity) == Val("Fn", arity, "", body)

Module(ref) == Val("Module", ref, "", <<>>)

Tagged(ref, tag) == Val("Tagged", ref, tag, <<>>)

\* Literal of the AST
Lit(t, n, s) == [lt |-> t, n |-> n, s |-> s]

\* impl From<Literal> for Value
LiteralInto(lit) == Val(lit.lt, lit.n, lit.s, <<>>)

\* impl PartialEq<Value> for Literal
LiteralEq(lit, c) == c.t = lit.lt /\ c.n = lit.n /\ c.s = lit.s /\ c.body = <<>>

\* impl PartialEq for Value: structural, modules by handle
ValueEq(a, b) == a = b

\* Symbol of a dotted path: the segments joined with "."
RECURSIVE Join(_)
Join(path) ==
  IF Len(path) = 0 THEN ""
  ELSE IF Len(path) = 1 THEN path[1]
  ELSE path[1] \o "." \o Join(Tail(path))

\* Scope::new()
Scope == [opcodes |-> <<>>, locals |-> EmptyMap, hist |-> <<>>]

\* YexModule::default()
DefaultModule == [name |-> "", fields |-> EmptyMap]

\* Iterator::position: 0-based index of the first element satisfying P, or -1
Position(seq, P(_)) ==
  IF \E i \in 1..Len(seq) : P(seq[i])
  THEN (CHOOSE i \in 1..Len(seq) : P(seq[i]) /\ \A j \in 1..(i - 1) : ~P(seq[j])) - 1
  ELSE -1

(* ------------------- the compiler's straight-line helpers -------------- *)
\* the three fields of Compiler as one value, threaded through the helpers
C == [scope_stack |-> scope_stack, constants |-> constants,
      unique_counter |-> unique_counter]

scope(c) == c.scope_stack[Len(c.scope_stack)]

\* self.scope().opcodes.len()
ip(c) == Len(scope(c).opcodes)

emit_op(c, op) ==
  [c EXCEPT !.scope_stack[Len(c.scope_stack)].opcodes = Append(@, op)]

RECURSIVE emit_ops(_, _)
emit_ops(c, ops) ==
  IF ops = <<>> THEN c ELSE emit_ops(emit_op(c, Head(ops)), Tail(ops))

\* self.scope_mut().opcodes[label].opcode = op
patch(c, label, op) ==
  [c EXCEPT !.scope_stack[Len(c.scope_stack)].opcodes[label + 1] = op]

RECURSIVE patch_all(_, _, _)
patch_all(c, labels, op) ==
  IF labels = <<>> THEN c
  ELSE patch_all(patch(c, Head(labels), op), Tail(labels), op)

\* a faulty emit_lit: the index of a new constant is taken as len(), not len() - 1
emit_lit_past(c, lit) ==
  LET idx == Position(c.constants, LAMBDA k : LiteralEq(lit, k)) IN
  IF idx >= 0 THEN emit_op(c, OpA("Push", idx))
  ELSE LET c1 == [c EXCEPT !.constants = Append(@, LiteralInto(lit))]
       IN emit_op(c1, OpA("Push", Len(c1.constants)))

emit_lit(c, lit) ==
  LET idx == Position(c.constants, LAMBDA k : LiteralEq(lit, k)) IN
  IF idx >= 0 THEN emit_op(c, OpA("Push", idx))
  ELSE LET c1 == [c EXCEPT !.constants = Append(@, LiteralInto(lit))]
       IN emit_op(c1, OpA("Push", Len(c1.constants) - 1))

\* a faulty emit_const: the search of the pool is left out
emit_const_append(c, const_) ==
  LET pos == Len(c.constants)
      c1 == [c EXCEPT !.constants = Append(@, const_)]
  IN emit_op(c1, OpA("Push", pos))

emit_const(c, const_) ==
  LET idx == Position(c.constants, LAMBDA k : ValueEq(k, const_)) IN
  IF const_.t # "Module" /\ idx >= 0 THEN emit_op(c, OpA("Push", idx))
  ELSE LET pos == Len(c.constants)
           c1 == [c EXCEPT !.constants = Append(@, const_)]
       IN emit_op(c1, OpA("Push", pos))

\* hist is not in the code: it records, per scope, every slot the entry API
\* hands to a name that was not in the map
emit_save(c, bind) ==
  LET top == Len(c.scope_stack)
      locals == c.scope_stack[top].locals
      len == Cardinality(DOMAIN locals)
      vacant == bind \notin DOMAIN locals
      index == IF vacant THEN len ELSE locals[bind]
      c1 == IF vacant
            THEN [c EXCEPT !.scope_stack[top].locals = MapPut(@, bind, len),
                           !.scope_stack[top].hist =
                              Append(@, [name |-> bind, slot |-> len])]
            ELSE c
  IN emit_op(c1, OpA("Save", index))

\* returns the compiler and the fresh symbol
emit_unique(c) ==
  LET c1 == [c EXCEPT !.unique_counter = @ + 1]
      unique == "#" \o ToString(c1.unique_counter)
  IN [c |-> emit_save(c1, unique), sym |-> unique]

emit_load(c, bind) ==
  IF bind \in DOMAIN scope(c).locals
  THEN emit_op(c, OpA("Load", scope(c).locals[bind]))
  ELSE emit_op(c, OpS("Loag", bind))

\* the "raise a MatchError" tail shared by let, lambda and top-level let
emit_raise(c, message) ==
  LET c1 == emit_const(c, Str(message))
      c2 == emit_const(c1, Sym("MatchError"))
  IN emit_ops(c2, <<OpS("Loag", "raise"), OpA("Call", 2)>>)

\* remove all the declarations from the local scope
RECURSIVE remove_decls(_, _)
remove_decls(c, decls) ==
  IF decls = <<>> THEN c
  ELSE remove_decls(
         [c EXCEPT !.scope_stack[Len(c.scope_stack)].locals =
                      MapRemove(@, Head(decls))],
         Tail(decls))

(* ------------------------------ the input ------------------------------ *)
Show(lit) == lit.lt \o ":" \o (IF lit.lt = "Num" THEN ToString(lit.n) ELSE lit.s)

ExprKinds == {"Lit", "Var", "Lambda", "App", "If", "Match", "Let", "Def", "And",
              "Or", "Binary", "List", "Cons", "UnOp", "MethodRef", "Try", "Tuple"}

PatKinds == {"Lit", "Id", "Wild", "Variant", "Tuple", "List", "EmptyList"}

StmtKinds == {"Def", "Let", "Type"}

\* An input family is a bounded language of programs: the node kinds, the
\* literals and the names its programs are made of, the entry points they are
\* compiled through and the number of AST nodes they may have.  The mixed
\* family has every construct in small programs; the others have fewer
\* constructs in larger programs.
Family(name, entries, exprs, pats, stmts, lits, names, nodes) ==
  [name |-> name, entries |-> entries, exprs |-> exprs, pats |-> pats,
   stmts |-> stmts, lits |-> lits, names |-> names, nodes |-> nodes]

Zero == Lit("Num", 0, "")

One == Lit("Num", 1, "")

Two == Lit("Num", 2, "")

True == Lit("Bool", 1, "true")

False == Lit("Bool", 0, "false")

Ok == Lit("Sym", 0, "ok")

Families ==
  { Family("mixed", {"expr", "stmts"}, ExprKinds, PatKinds, StmtKinds,
           {One}, {"x"}, MaxNodes),
    Family("binders", {"expr"}, {"Lit", "Var", "Let", "Def", "Try"},
           {"Id", "Tuple"}, {}, {One}, {"x", "y"}, MaxNodes + 3),
    Family("closures", {"expr"}, {"Lit", "Var", "Let", "Def", "Lambda"},
           {"Id", "Wild"}, {}, {One}, {"x"}, MaxNodes + 2),
    Family("control", {"expr"}, {"Lit", "If", "And", "Or", "Match", "Let"},
           {"Lit", "Wild", "EmptyList"}, {}, {One}, {"x"}, MaxNodes + 3),
    Family("constants", {"stmts"}, {"Lit", "List", "Lambda"},
           {"EmptyList", "Tuple", "Variant"}, {"Let"}, {Zero, Ok},
           {"x"}, MaxNodes + 2),
    Family("patterns", {"expr"}, {"Lit", "Let", "Match"}, {"Variant", "List", "Id", "Lit"},
           {}, {One}, {"x"}, MaxNodes + 4),
    Family("example", {"expr"}, {"Lit", "Var", "Let", "Binary"}, {"Id"},
           {}, {One, Two}, {"x"}, MaxNodes + 3),
    Family("logic", {"expr"}, {"Lit", "And", "Or"}, {},
           {}, {True, False}, {"x"}, MaxNodes + 4),
    Family("matching", {"expr"}, {"Lit", "Match"}, {"Lit", "Id"},
           {}, {One, False}, {"x"}, MaxNodes + 3),
    Family("lists", {"expr"}, {"Lit", "List", "Match"}, {"List", "EmptyList", "Id"},
           {}, {One}, {"x"}, MaxNodes + 3),
    Family("rescue", {"expr"}, {"Lit", "App", "Try", "If"}, {},
           {}, {True}, {"x"}, MaxNodes + 2),
    Family("shadow", {"expr"}, {"Var", "Let"}, {"Id"},
           {}, {One}, {"x", "y"}, MaxNodes + 7),
    Family("items", {"stmts"}, {"Lit", "Match", "Lambda"},
           {"Id", "Tuple", "List"}, StmtKinds, {Zero}, {"x"}, MaxNodes + 3) }

(* --------------------------- the walk's state -------------------------- *)
\* k names the code that runs next in the frame; i, n, lbl, lbl2, s, g, decls,
\* fix, tbl and patch_list are its local variables; start, saved, depth, vars
\* and mems are not in the code: they remember where the construct started
Frame == [k |-> "", i |-> 0, n |-> 0, lbl |-> 0, lbl2 |-> -1, s |-> "",
          g |-> FALSE, decls |-> <<>>, fix |-> <<>>, tbl |-> EmptyMap,
          patch_list |-> <<>>,
          start |-> 0, saved |-> EmptyMap, depth |-> 0, vars |-> <<>>,
          mems |-> <<>>, bound |-> EmptyMap]

NoRet == [decls |-> <<>>, labels |-> <<>>, n |-> -1, fn |-> Num(0)]

\* Not in the code: where a construct lies in its buffer.  kind is "And",
\* "Or", "arm" or "Match"; depth the scope that owns the buffer; start and end
\* the first address and the address past the last; site the Jmf of an and/or;
\* id the address of the Save of a match's temporary, the same in the match and
\* in its arms; sites the fail sites and the guard site of an arm, body the
\* first address of its body, jmp its closing Jmp; tail the first address of
\* the raise tail of a match
NoMark == [kind |-> "", depth |-> 0, id |-> 0, start |-> 0, site |-> -1,
           body |-> 0, jmp |-> -1, tail |-> 0, end |-> 0, sites |-> <<>>]

\* what: "expr", "arm", "lambda", "stmt" or "unit", the construct that ended
NoSnap == [what |-> "", start |-> 0, saved |-> EmptyMap, depth |-> 0, s |-> "",
           decls |-> <<>>, index |-> 0, vars |-> <<>>, mems |-> <<>>,
           mark |-> NoMark]

\* the marks after a step: those of a buffer that was popped are dropped, the
\* mark of the construct that ended is added
Marked(c, sn) ==
  LET open == Len(c.scope_stack)
      kept == SelectSeq(marks, LAMBDA m : m.depth <= open)
  IN IF sn.mark.kind = "" THEN kept
     ELSE Append(kept, [sn.mark EXCEPT !.depth = open, !.end = ip(c)])

\* no unit has opened the returned unit
NoHost == [status |-> "none", opcodes |-> <<>>, constants |-> <<>>, C |-> 0, B |-> 0]

\* the machine before it is started
VmOff == [status |-> "off", ip |-> 0, stack |-> <<>>, locals |-> EmptyMap,
          handlers |-> <<>>, seen |-> EmptyMap, raised |-> FALSE]

\* the expression that started at address start of the current buffer ended
ExprEnd(start) == [NoSnap EXCEPT !.what = "expr", !.start = start]

Want(k) == pc = "running" /\ work # <<>> /\ Head(work).k = k

Step0(name, c, w, r, sp, sn, tok) ==
  /\ scope_stack' = c.scope_stack
  /\ constants' = c.constants
  /\ unique_counter' = c.unique_counter
  /\ work' = w
  /\ ret' = r
  /\ spare' = sp
  /\ last' = name
  /\ snap' = sn
  /\ input' = IF tok = "" THEN input ELSE Append(input, tok)
  /\ marks' = Marked(c, sn)

Step(name, c, w, r, sp, sn, tok) ==
  /\ Step0(name, c, w, r, sp, sn, tok)
  /\ UNCHANGED <<modules, pc, output, family, vm, host>>

Init ==
  /\ scope_stack = <<>>
  /\ constants = <<>>
  /\ unique_counter = 0
  /\ modules = <<>>
  /\ work = <<>>
  /\ ret = NoRet
  /\ pc = "new"
  /\ output = [opcodes |-> <<>>, constants |-> <<>>]
  /\ family \in Families
  /\ spare = family.nodes
  /\ last = ""
  /\ snap = NoSnap
  /\ input = <<>>
  /\ marks = <<>>
  /\ vm = VmOff
  /\ host = NoHost

(* ----------------------------- compile_expr ---------------------------- *)
compile_expr ==
  /\ pc = "new"
  /\ "expr" \in family.entries
  /\ spare >= 1
  /\ scope_stack' = Append(scope_stack, Scope)
  /\ work' = <<[Frame EXCEPT !.k = "expr"], [Frame EXCEPT !.k = "compile_expr_end"]>>
  /\ pc' = "running"
  /\ spare' = spare - 1
  /\ last' = "compile_expr"
  /\ snap' = NoSnap
  /\ UNCHANGED <<constants, unique_counter, modules, ret, output, family, input,
                 marks, vm, host>>

compile_expr_end ==
  /\ Want("compile_expr_end")
  /\ output' = [opcodes |-> scope(C).opcodes, constants |-> constants]
  /\ scope_stack' = SubSeq(scope_stack, 1, Len(scope_stack) - 1)
  /\ work' = Tail(work)
  /\ pc' = "done"
  /\ last' = "compile_expr_end"
  /\ snap' = [NoSnap EXCEPT !.what = "unit", !.depth = Len(scope_stack)]
  /\ UNCHANGED <<constants, unique_counter, modules, ret, spare, family, input,
                 marks, vm, host>>

(* --------------------------------- expr -------------------------------- *)
\* the node read next is an expression of this kind with `children` children
Expr(kind, children) ==
  Want("expr") /\ kind \in family.exprs /\ spare >= children

expr_Lit(lit) ==
  /\ Expr("Lit", 0)
  /\ Step("expr_Lit", emit_lit(C, lit), Tail(work), NoRet, spare,
          ExprEnd(ip(C)), "Lit " \o Show(lit))

\* a faulty Var: the name is looked up in the enclosing scopes as well
expr_Var_outer(name) ==
  /\ Expr("Var", 0)
  /\ LET holds == {d \in 1..Len(scope_stack) : name \in DOMAIN scope_stack[d].locals}
         inner == CHOOSE d \in holds : \A e \in holds : e <= d
         c1 == IF holds # {}
               THEN emit_op(C, OpA("Load", scope_stack[inner].locals[name]))
               ELSE emit_op(C, OpS("Loag", name))
     IN Step("expr_Var", c1, Tail(work), NoRet, spare,
             [ExprEnd(ip(C)) EXCEPT !.s = name], "Var " \o name)

expr_Var(name) ==
  /\ Expr("Var", 0)
  /\ LET locals == scope(C).locals
         c1 == IF name \in DOMAIN locals
               THEN emit_op(C, OpA("Load", locals[name]))
               ELSE emit_op(C, OpS("Loag", name))
     IN Step("expr_Var", c1, Tail(work), NoRet, spare,
             [ExprEnd(ip(C)) EXCEPT !.s = name], "Var " \o name)

\* frames of the calls an expression makes first
E == [Frame EXCEPT !.k = "expr"]

P(global) == [Frame EXCEPT !.k = "pat", !.g = global]

\* the top frame, continued as frame k
Cont(k) == [Head(work) EXCEPT !.k = k]

\* the frame that continues an expression which starts at the current address
After(k) == [Frame EXCEPT !.k = k, !.start = ip(C)]

BinOps == {"Add", "Ne"}

UnOps == {"Not"}

Methods == {"head"}

\* impl From<BinOp> for &[OpCode], impl From<UnOp> for &[OpCode]
OpInto(op) == IF op = "Ne" THEN <<Op("Eq"), Op("Not")>> ELSE <<Op(op)>>

(* lambda_expr *)
expr_Lambda(n) ==
  /\ Expr("Lambda", n + 1)
  /\ Step("expr_Lambda", C,
          <<[Frame EXCEPT !.k = "lambda_expr", !.n = n], After("expr_Lambda_ret")>>
            \o Tail(work),
          NoRet, spare - (n + 1), NoSnap, "Lambda " \o ToString(n))

lambda_expr ==
  /\ Want("lambda_expr")
  /\ Step("lambda_expr", [C EXCEPT !.scope_stack = Append(@, Scope)],
          <<[Cont("lambda_args") EXCEPT !.depth = Len(scope_stack)]>> \o Tail(work),
          NoRet, spare, NoSnap, "")

lambda_arg ==
  /\ Want("lambda_args")
  /\ Head(work).i < Head(work).n
  /\ Step("lambda_arg", C,
          <<P(FALSE), [Head(work) EXCEPT !.i = @ + 1, !.fix = @ \o ret.labels]>>
            \o Tail(work),
          NoRet, spare, NoSnap, "")

lambda_body ==
  /\ Want("lambda_args")
  /\ Head(work).i = Head(work).n
  /\ Step("lambda_body", C,
          <<E, [Cont("lambda_end") EXCEPT !.fix = @ \o ret.labels]>> \o Tail(work),
          NoRet, spare, NoSnap, "")

\* a faulty end of lambda_expr: the scope is read but not popped
lambda_end_keep ==
  /\ Want("lambda_end")
  /\ LET jmp_label == ip(C)
         c1 == emit_op(C, OpA("Jmp", 0))
         c2 == patch_all(c1, Head(work).fix, OpA("Jmf", ip(c1)))
         c3 == emit_raise(c2, "No match of rhs value")
         c4 == patch(c3, jmp_label, OpA("Jmp", ip(c3)))
     IN Step("lambda_end", c4, Tail(work),
             [NoRet EXCEPT !.fn = Fn(scope(c4).opcodes, Head(work).n)], spare,
             [NoSnap EXCEPT !.what = "lambda", !.depth = Head(work).depth], "")

lambda_end ==
  /\ Want("lambda_end")
  /\ LET jmp_label == ip(C)
         c1 == emit_op(C, OpA("Jmp", 0))
         c2 == patch_all(c1, Head(work).fix, OpA("Jmf", ip(c1)))
         c3 == emit_raise(c2, "No match of rhs value")
         c4 == patch(c3, jmp_label, OpA("Jmp", ip(c3)))
         c5 == [c4 EXCEPT !.scope_stack = SubSeq(@, 1, Len(@) - 1)]
     IN Step("lambda_end", c5, Tail(work),
             [NoRet EXCEPT !.fn = Fn(scope(c4).opcodes, Head(work).n)], spare,
             [NoSnap EXCEPT !.what = "lambda", !.depth = Head(work).depth], "")

expr_Lambda_ret ==
  /\ Want("expr_Lambda_ret")
  /\ Step("expr_Lambda_ret", emit_const(C, ret.fn), Tail(work), NoRet, spare,
          ExprEnd(Head(work).start), "")

(* ExprKind::App *)
expr_App(n, tail) ==
  /\ Expr("App", n + 1)
  /\ Step("expr_App", C,
          <<[After("app_args") EXCEPT !.n = n, !.g = tail]>> \o Tail(work),
          NoRet, spare - (n + 1), NoSnap,
          "App " \o ToString(n) \o (IF tail THEN " tail" ELSE ""))

app_arg ==
  /\ Want("app_args")
  /\ Head(work).i < Head(work).n
  /\ Step("app_arg", C, <<E, [Head(work) EXCEPT !.i = @ + 1]>> \o Tail(work),
          NoRet, spare, NoSnap, "")

app_callee ==
  /\ Want("app_args")
  /\ Head(work).i = Head(work).n
  /\ Step("app_callee",
          IF Head(work).n > 1 THEN emit_op(C, OpA("RevN", Head(work).n)) ELSE C,
          <<E, Cont("app_end")>> \o Tail(work), NoRet, spare, NoSnap, "")

app_end ==
  /\ Want("app_end")
  /\ Step("app_end",
          emit_op(C, OpA(IF Head(work).g THEN "TCall" ELSE "Call", Head(work).n)),
          Tail(work), NoRet, spare, ExprEnd(Head(work).start), "")

(* if_expr *)
expr_If ==
  /\ Expr("If", 3)
  /\ Step("expr_If", C, <<E, After("if_then")>> \o Tail(work), NoRet, spare - 3,
          NoSnap, "If")

if_then ==
  /\ Want("if_then")
  /\ LET then_label == ip(C) IN
     Step("if_then", emit_op(C, OpA("Jmf", 0)),
          <<E, [Cont("if_else") EXCEPT !.lbl = then_label]>> \o Tail(work),
          NoRet, spare, NoSnap, "")

\* if_else with the Jmf of the condition patched to the start of the condition
if_else_back ==
  /\ Want("if_else")
  /\ LET else_label == ip(C)
         c1 == emit_op(C, OpA("Jmp", 0))
         c2 == patch(c1, Head(work).lbl, OpA("Jmf", Head(work).start))
     IN Step("if_else", c2, <<E, [Cont("if_end") EXCEPT !.lbl = else_label]>> \o Tail(work),
             NoRet, spare, NoSnap, "")

if_else ==
  /\ Want("if_else")
  /\ LET else_label == ip(C)
         c1 == emit_op(C, OpA("Jmp", 0))
         c2 == patch(c1, Head(work).lbl, OpA("Jmf", ip(c1)))
     IN Step("if_else", c2, <<E, [Cont("if_end") EXCEPT !.lbl = else_label]>> \o Tail(work),
             NoRet, spare, NoSnap, "")

if_end ==
  /\ Want("if_end")
  /\ Step("if_end", patch(C, Head(work).lbl, OpA("Jmp", ip(C))), Tail(work), NoRet,
          spare, ExprEnd(Head(work).start), "")

(* ExprKind::Let *)
expr_Let ==
  /\ Expr("Let", 3)
  /\ Step("expr_Let", C, <<E, After("let_pat")>> \o Tail(work), NoRet, spare - 3,
          NoSnap, "Let")

let_pat ==
  /\ Want("let_pat")
  /\ Step("let_pat", C,
          <<P(FALSE), [Cont("let_body") EXCEPT !.saved = scope(C).locals]>>
            \o Tail(work),
          NoRet, spare, NoSnap, "")

let_body ==
  /\ Want("let_body")
  /\ Step("let_body", C,
          <<E, [Cont("let_end") EXCEPT !.decls = ret.decls, !.fix = ret.labels,
                                      !.bound = scope(C).locals]>>
            \o Tail(work),
          NoRet, spare, NoSnap, "")

\* a faulty end of Let: the jump over the raise tail is patched before the
\* tail is emitted
let_end_early ==
  /\ Want("let_end")
  /\ LET c0 == remove_decls(C, Head(work).decls)
         jmp_label == ip(c0)
         c1 == emit_op(c0, OpA("Jmp", 0))
         c2 == patch_all(c1, Head(work).fix, OpA("Jmf", ip(c1)))
         c3 == patch(c2, jmp_label, OpA("Jmp", ip(c2)))
         c4 == emit_raise(c3, "No match of rhs value")
     IN Step("let_end", c4, Tail(work), NoRet, spare,
             [ExprEnd(Head(work).start) EXCEPT !.saved = Head(work).saved,
                                               !.decls = Head(work).decls,
                                               !.s = "Let"], "")

let_end ==
  /\ Want("let_end")
  /\ LET c0 == remove_decls(C, Head(work).decls)
         jmp_label == ip(c0)
         c1 == emit_op(c0, OpA("Jmp", 0))
         c2 == patch_all(c1, Head(work).fix, OpA("Jmf", ip(c1)))
         c3 == emit_raise(c2, "No match of rhs value")
         c4 == patch(c3, jmp_label, OpA("Jmp", ip(c3)))
     IN Step("let_end", c4, Tail(work), NoRet, spare,
             [ExprEnd(Head(work).start) EXCEPT !.saved = Head(work).saved,
                                               !.decls = Head(work).decls,
                                               !.s = "Let"], "")

(* ExprKind::Def *)
expr_Def(bind) ==
  /\ Expr("Def", 2)
  /\ Step("expr_Def", C, <<E, [After("def_save") EXCEPT !.s = bind]>> \o Tail(work),
          NoRet, spare - 2, NoSnap, "Def " \o bind)

def_save ==
  /\ Want("def_save")
  /\ Step("def_save", emit_save(C, Head(work).s), <<E, Cont("def_end")>> \o Tail(work),
          NoRet, spare, NoSnap, "")

def_end ==
  /\ Want("def_end")
  /\ Step("def_end", C, Tail(work), NoRet, spare, ExprEnd(Head(work).start), "")

(* BinOp::And, BinOp::Or *)
expr_And ==
  /\ Expr("And", 2)
  /\ Step("expr_And", C, <<E, After("and_test")>> \o Tail(work), NoRet, spare - 2,
          NoSnap, "And")

\* a faulty And: the duplicate of the left value is not popped before the right
and_test_keep ==
  /\ Want("and_test")
  /\ LET c1 == emit_op(C, Op("Dup"))
         then_label == ip(c1)
         c2 == emit_op(c1, OpA("Jmf", 0))
     IN Step("and_test", c2,
             <<E, [Cont("and_end") EXCEPT !.lbl = then_label]>> \o Tail(work),
             NoRet, spare, NoSnap, "")

and_test ==
  /\ Want("and_test")
  /\ LET c1 == emit_op(C, Op("Dup"))
         then_label == ip(c1)
         c2 == emit_ops(c1, <<OpA("Jmf", 0), Op("Pop")>>)
     IN Step("and_test", c2,
             <<E, [Cont("and_end") EXCEPT !.lbl = then_label]>> \o Tail(work),
             NoRet, spare, NoSnap, "")

\* a faulty And: the Jmf over the right operand is left as emitted
and_end_unpatched ==
  /\ Want("and_end")
  /\ Step("and_end", C, Tail(work), NoRet, spare, ExprEnd(Head(work).start), "")

and_end ==
  /\ Want("and_end")
  /\ Step("and_end", patch(C, Head(work).lbl, OpA("Jmf", ip(C))), Tail(work), NoRet,
          spare,
          [ExprEnd(Head(work).start) EXCEPT
             !.mark = [NoMark EXCEPT !.kind = "And", !.start = Head(work).start,
                                     !.site = Head(work).lbl]], "")

expr_Or ==
  /\ Expr("Or", 2)
  /\ Step("expr_Or", C, <<E, After("or_test")>> \o Tail(work), NoRet, spare - 2,
          NoSnap, "Or")

\* a faulty Or: the Not before the test is left out
or_test_plain ==
  /\ Want("or_test")
  /\ LET c1 == emit_op(C, Op("Dup"))
         then_label == ip(c1)
         c2 == emit_ops(c1, <<OpA("Jmf", 0), Op("Pop")>>)
     IN Step("or_test", c2,
             <<E, [Cont("or_end") EXCEPT !.lbl = then_label]>> \o Tail(work),
             NoRet, spare, NoSnap, "")

or_test ==
  /\ Want("or_test")
  /\ LET c1 == emit_ops(C, <<Op("Dup"), Op("Not")>>)
         then_label == ip(c1)
         c2 == emit_ops(c1, <<OpA("Jmf", 0), Op("Pop")>>)
     IN Step("or_test", c2,
             <<E, [Cont("or_end") EXCEPT !.lbl = then_label]>> \o Tail(work),
             NoRet, spare, NoSnap, "")

or_end ==
  /\ Want("or_end")
  /\ Step("or_end", patch(C, Head(work).lbl, OpA("Jmf", ip(C))), Tail(work), NoRet,
          spare,
          [ExprEnd(Head(work).start) EXCEPT
             !.mark = [NoMark EXCEPT !.kind = "Or", !.start = Head(work).start,
                                     !.site = Head(work).lbl]], "")

(* ExprKind::Binary, any other operator *)
expr_Binary(op) ==
  /\ Expr("Binary", 2)
  /\ Step("expr_Binary", C, <<E, [After("binary_right") EXCEPT !.s = op]>> \o Tail(work),
          NoRet, spare - 2, NoSnap, "Binary " \o op)

binary_right ==
  /\ Want("binary_right")
  /\ Step("binary_right", C, <<E, Cont("binary_end")>> \o Tail(work), NoRet, spare,
          NoSnap, "")

binary_end ==
  /\ Want("binary_end")
  /\ Step("binary_end", emit_ops(C, OpInto(Head(work).s)), Tail(work), NoRet, spare,
          ExprEnd(Head(work).start), "")

(* ExprKind::List *)
expr_List(n) ==
  /\ Expr("List", n)
  /\ Step("expr_List", C, <<[After("list_elems") EXCEPT !.n = n]>> \o Tail(work),
          NoRet, spare - n, NoSnap, "List " \o ToString(n))

list_elem ==
  /\ Want("list_elems")
  /\ Head(work).i < Head(work).n
  /\ Step("list_elem", C, <<E, [Head(work) EXCEPT !.i = @ + 1]>> \o Tail(work),
          NoRet, spare, NoSnap, "")

list_end ==
  /\ Want("list_elems")
  /\ Head(work).i = Head(work).n
  /\ Step("list_end",
          emit_ops(emit_const(C, EmptyList), [j \in 1..Head(work).n |-> Op("Prep")]),
          Tail(work), NoRet, spare, ExprEnd(Head(work).start), "")

(* ExprKind::Cons *)
expr_Cons ==
  /\ Expr("Cons", 2)
  /\ Step("expr_Cons", C, <<E, After("cons_tail")>> \o Tail(work), NoRet, spare - 2,
          NoSnap, "Cons")

cons_tail ==
  /\ Want("cons_tail")
  /\ Step("cons_tail", C, <<E, Cont("cons_end")>> \o Tail(work), NoRet, spare,
          NoSnap, "")

cons_end ==
  /\ Want("cons_end")
  /\ Step("cons_end", emit_op(C, Op("Prep")), Tail(work), NoRet, spare,
          ExprEnd(Head(work).start), "")

(* ExprKind::UnOp *)
expr_UnOp(op) ==
  /\ Expr("UnOp", 1)
  /\ Step("expr_UnOp", C, <<E, [After("unop_end") EXCEPT !.s = op]>> \o Tail(work),
          NoRet, spare - 1, NoSnap, "UnOp " \o op)

unop_end ==
  /\ Want("unop_end")
  /\ Step("unop_end", emit_ops(C, OpInto(Head(work).s)), Tail(work), NoRet, spare,
          ExprEnd(Head(work).start), "")

(* ExprKind::MethodRef *)
expr_MethodRef(method) ==
  /\ Expr("MethodRef", 1)
  /\ Step("expr_MethodRef", C,
          <<E, [After("methodref_end") EXCEPT !.s = method]>> \o Tail(work),
          NoRet, spare - 1, NoSnap, "MethodRef " \o method)

methodref_end ==
  /\ Want("methodref_end")
  /\ Step("methodref_end", emit_op(C, OpS("Ref", Head(work).s)), Tail(work), NoRet,
          spare, ExprEnd(Head(work).start), "")

(* ExprKind::Try *)
expr_Try(bind) ==
  /\ Expr("Try", 2)
  /\ LET try_label == ip(C) IN
     Step("expr_Try", emit_op(C, OpA("Try", 0)),
          <<E, [After("try_rescue") EXCEPT !.lbl = try_label, !.s = bind]>>
            \o Tail(work),
          NoRet, spare - 2, NoSnap, "Try " \o bind)

try_rescue ==
  /\ Want("try_rescue")
  /\ LET c1 == emit_op(C, Op("EndTry"))
         end_label == ip(c1)
         c2 == emit_op(c1, OpA("Jmp", 0))
         c3 == patch(c2, Head(work).lbl, OpA("Try", ip(c2)))
         c4 == emit_op(c3, Op("Pop"))
         c5 == emit_save(c4, Head(work).s)
     IN Step("try_rescue", c5,
             <<E, [Cont("try_end") EXCEPT !.lbl = end_label]>> \o Tail(work),
             NoRet, spare, NoSnap, "")

try_end ==
  /\ Want("try_end")
  /\ Step("try_end", patch(C, Head(work).lbl, OpA("Jmp", ip(C))), Tail(work), NoRet,
          spare, ExprEnd(Head(work).start), "")

(* ExprKind::Tuple: the elements are visited last to first *)
expr_Tuple(n) ==
  /\ Expr("Tuple", n)
  /\ Step("expr_Tuple", C, <<[After("tuple_elems") EXCEPT !.n = n]>> \o Tail(work),
          NoRet, spare - n, NoSnap, "Tuple " \o ToString(n))

tuple_elem ==
  /\ Want("tuple_elems")
  /\ Head(work).i < Head(work).n
  /\ Step("tuple_elem", C, <<E, [Head(work) EXCEPT !.i = @ + 1]>> \o Tail(work),
          NoRet, spare, NoSnap, "")

tuple_end ==
  /\ Want("tuple_elems")
  /\ Head(work).i = Head(work).n
  /\ Step("tuple_end", emit_op(C, OpA("Tup", Head(work).n)), Tail(work), NoRet, spare,
          ExprEnd(Head(work).start), "")

(* ---------------------------- match_pattern ---------------------------- *)
\* paths of variant patterns, as their segments
VariantPaths == {<<"T", "A">>}

\* the node read next is a pattern of this kind with `children` sub-patterns
Pat(kind, children) ==
  Want("pat") /\ kind \in family.pats /\ spare >= children

\* Not in the code: a pattern that started at address start has ended
PatEnd(start) == [NoSnap EXCEPT !.what = "pat", !.start = start]

\* match_pattern returns (declarations, labels)
Returns(decls, labels) == [NoRet EXCEPT !.decls = decls, !.labels = labels]

pat_Lit(lt) ==
  /\ Pat("Lit", 0)
  /\ LET c1 == emit_op(emit_lit(C, lt), Op("Eq"))
         label == ip(c1)
     IN Step("pat_Lit", emit_op(c1, OpA("Jmf", 0)), Tail(work),
             Returns(<<>>, <<label>>), spare, PatEnd(ip(C)), "PLit " \o Show(lt))

pat_Id(id) ==
  /\ Pat("Id", 0)
  /\ Step("pat_Id",
          IF Head(work).g THEN emit_op(C, OpS("Savg", id)) ELSE emit_save(C, id),
          Tail(work), Returns(<<id>>, <<>>), spare, PatEnd(ip(C)), "PId " \o id)

\* pat_Wild that leaves the matchee on the stack
pat_Wild_keep ==
  /\ Pat("Wild", 0)
  /\ Step("pat_Wild", C, Tail(work), Returns(<<>>, <<>>), spare,
          PatEnd(ip(C)), "PId _")

pat_Wild ==
  /\ Pat("Wild", 0)
  /\ Step("pat_Wild", emit_op(C, Op("Pop")), Tail(work), Returns(<<>>, <<>>), spare,
          PatEnd(ip(C)), "PId _")

pat_Variant(path, n) ==
  /\ Pat("Variant", n)
  /\ LET name == Join(path)
         u == emit_unique(emit_op(C, Op("Dup")))
         local == u.sym
         c1 == emit_op(u.c, Op("TagOf"))
         c2 == emit_op(emit_const(c1, Sym(name)), Op("Eq"))
         label1 == ip(c2)
         c3 == emit_op(c2, OpA("Jmf", 0))
         c4 == emit_ops(emit_load(c3, local), <<Op("TagTup"), Op("Len")>>)
         c5 == emit_op(emit_lit(c4, Lit("Num", n, "")), Op("Eq"))
         label2 == ip(c5)
         c6 == emit_op(c5, OpA("Jmf", 0))
     IN Step("pat_Variant", c6,
             <<[Head(work) EXCEPT !.k = "variant_args", !.n = n, !.s = local,
                                  !.fix = <<label1, label2>>, !.start = ip(C)]>> \o Tail(work),
             NoRet, spare - n, NoSnap,
             "PVariant " \o name \o " " \o ToString(n))

variant_arg ==
  /\ Want("variant_args")
  /\ Head(work).i < Head(work).n
  /\ LET c1 == emit_load(C, Head(work).s)
         c2 == emit_ops(c1, <<Op("TagTup"), OpA("TupGet", Head(work).i)>>)
     IN Step("variant_arg", c2,
             <<P(Head(work).g),
               [Head(work) EXCEPT !.i = @ + 1, !.fix = @ \o ret.labels,
                                  !.decls = @ \o ret.decls]>> \o Tail(work),
             NoRet, spare, NoSnap, "")

variant_end ==
  /\ Want("variant_args")
  /\ Head(work).i = Head(work).n
  /\ Step("variant_end", C, Tail(work),
          Returns(Head(work).decls \o ret.decls, Head(work).fix \o ret.labels),
          spare, PatEnd(Head(work).start), "")

pat_Tuple(n) ==
  /\ Pat("Tuple", n)
  /\ LET u == emit_unique(C)
         local == u.sym
         c1 == emit_op(emit_load(u.c, local), Op("Len"))
         c2 == emit_op(emit_const(c1, Num(n)), Op("Eq"))
         label == ip(c2)
         c3 == emit_op(c2, OpA("Jmf", 0))
     IN Step("pat_Tuple", c3,
             <<[Head(work) EXCEPT !.k = "tuple_args", !.n = n, !.s = local,
                                  !.fix = <<label>>, !.start = ip(C)]>> \o Tail(work),
             NoRet, spare - n, NoSnap, "PTuple " \o ToString(n))

tuple_arg ==
  /\ Want("tuple_args")
  /\ Head(work).i < Head(work).n
  /\ LET c1 == emit_load(C, Head(work).s)
         c2 == emit_op(c1, OpA("TupGet", Head(work).i))
     IN Step("tuple_arg", c2,
             <<P(Head(work).g),
               [Head(work) EXCEPT !.i = @ + 1, !.fix = @ \o ret.labels,
                                  !.decls = @ \o ret.decls]>> \o Tail(work),
             NoRet, spare, NoSnap, "")

tuple_args_end ==
  /\ Want("tuple_args")
  /\ Head(work).i = Head(work).n
  /\ Step("tuple_args_end", C, Tail(work),
          Returns(Head(work).decls \o ret.decls, Head(work).fix \o ret.labels),
          spare, PatEnd(Head(work).start), "")

pat_List ==
  /\ Pat("List", 2)
  /\ LET u == emit_unique(C)
         local == u.sym
         c1 == emit_ops(emit_load(u.c, local),
                        <<OpS("Loag", "List"), OpS("Ref", "head"), OpA("Call", 1)>>)
     IN Step("pat_List", c1,
             <<P(Head(work).g),
               [Head(work) EXCEPT !.k = "list_tail", !.s = local, !.start = ip(C)]>>
               \o Tail(work),
             NoRet, spare - 2, NoSnap, "PList")

list_tail ==
  /\ Want("list_tail")
  /\ LET c1 == emit_ops(emit_load(C, Head(work).s),
                        <<OpS("Loag", "List"), OpS("Ref", "tail"), OpA("Call", 1)>>)
     IN Step("list_tail", c1,
             <<P(Head(work).g),
               [Head(work) EXCEPT !.k = "list_pat_end", !.fix = ret.labels,
                                  !.decls = ret.decls]>> \o Tail(work),
             NoRet, spare, NoSnap, "")

list_pat_end ==
  /\ Want("list_pat_end")
  /\ Step("list_pat_end", C, Tail(work),
          Returns(Head(work).decls \o ret.decls, Head(work).fix \o ret.labels),
          spare, PatEnd(Head(work).start), "")

pat_EmptyList ==
  /\ Pat("EmptyList", 0)
  /\ LET c1 == emit_op(emit_const(C, EmptyList), Op("Eq"))
         offset == ip(c1)
     IN Step("pat_EmptyList", emit_op(c1, OpA("Jmf", 0)), Tail(work),
             Returns(<<>>, <<offset>>), spare, PatEnd(ip(C)), "PEmptyList")

(* ----------------------- match_expr and match_arm ---------------------- *)
expr_Match(n) ==
  /\ Expr("Match", 1 + 2 * n)
  /\ Step("expr_Match", C, <<E, [After("match_start") EXCEPT !.n = n]>> \o Tail(work),
          NoRet, spare - (1 + 2 * n), NoSnap, "Match " \o ToString(n))

match_start ==
  /\ Want("match_start")
  /\ LET u == emit_unique(C)
         c1 == emit_op(emit_const(u.c, Str("Starting match")), Op("Pop"))
     IN Step("match_start", c1,
             <<[Cont("match_arms") EXCEPT !.s = u.sym, !.lbl = ip(C)]>> \o Tail(work),
             NoRet, spare, NoSnap, "")

\* one turn of the loop over the arms, up to the arm's call of match_pattern;
\* the jump label the previous arm returned is pushed on jmps
match_arm(guard) ==
  /\ Want("match_arms")
  /\ Head(work).i < Head(work).n
  /\ guard => spare >= 1
  /\ LET jmps == Head(work).fix \o (IF ret.n >= 0 THEN <<ret.n>> ELSE <<>>)
         c1 == emit_load(C, Head(work).s)
     IN Step("match_arm", c1,
             <<P(FALSE),
               [Frame EXCEPT !.k = "arm_pat", !.g = guard, !.start = ip(c1),
                             !.saved = scope(C).locals, !.lbl = Head(work).lbl],
               [Head(work) EXCEPT !.i = @ + 1, !.fix = jmps]>> \o Tail(work),
             NoRet, IF guard THEN spare - 1 ELSE spare, NoSnap,
             IF guard THEN "Arm guard" ELSE "Arm")

arm_guard ==
  /\ Want("arm_pat")
  /\ Head(work).g
  /\ Step("arm_guard", C,
          <<E, [Cont("arm_guard_jmf") EXCEPT !.decls = ret.decls, !.fix = ret.labels,
                                            !.bound = scope(C).locals]>>
            \o Tail(work),
          NoRet, spare, NoSnap, "")

arm_guard_jmf ==
  /\ Want("arm_guard_jmf")
  /\ LET label == ip(C) IN
     Step("arm_guard_jmf", emit_op(C, OpA("Jmf", 0)),
          <<E, [Cont("arm_end") EXCEPT !.lbl2 = label, !.i = label + 1]>> \o Tail(work),
          NoRet, spare, NoSnap, "")

arm_body ==
  /\ Want("arm_pat")
  /\ ~Head(work).g
  /\ Step("arm_body", C,
          <<E, [Cont("arm_end") EXCEPT !.decls = ret.decls, !.fix = ret.labels,
                                      !.i = ip(C), !.bound = scope(C).locals]>>
            \o Tail(work),
          NoRet, spare, NoSnap, "")

\* arm_end with the fail sites patched to the arm's closing Jmp
arm_end_short ==
  /\ Want("arm_end")
  /\ LET c0 == remove_decls(C, Head(work).decls)
         jmp_label == ip(c0)
         c1 == emit_op(c0, OpA("Jmp", 0))
         c2 == patch_all(c1, Head(work).fix, OpA("Jmf", jmp_label))
         c3 == IF Head(work).lbl2 >= 0
               THEN patch(c2, Head(work).lbl2, OpA("Jmf", ip(c2)))
               ELSE c2
     IN Step("arm_end", c3, Tail(work), [NoRet EXCEPT !.n = jmp_label], spare,
             [NoSnap EXCEPT
                !.what = "arm", !.start = Head(work).start,
                !.saved = Head(work).saved, !.decls = Head(work).decls,
                !.mark = [NoMark EXCEPT
                            !.kind = "arm", !.id = Head(work).lbl,
                            !.start = Head(work).start - 1,
                            !.sites = Head(work).fix \o
                                        (IF Head(work).lbl2 >= 0
                                         THEN <<Head(work).lbl2>> ELSE <<>>),
                            !.body = Head(work).i, !.jmp = jmp_label]],
             "")

arm_end ==
  /\ Want("arm_end")
  /\ LET c0 == remove_decls(C, Head(work).decls)
         jmp_label == ip(c0)
         c1 == emit_op(c0, OpA("Jmp", 0))
         c2 == patch_all(c1, Head(work).fix, OpA("Jmf", ip(c1)))
         c3 == IF Head(work).lbl2 >= 0
               THEN patch(c2, Head(work).lbl2, OpA("Jmf", ip(c2)))
               ELSE c2
     IN Step("arm_end", c3, Tail(work), [NoRet EXCEPT !.n = jmp_label], spare,
             [NoSnap EXCEPT
                !.what = "arm", !.start = Head(work).start,
                !.saved = Head(work).saved, !.decls = Head(work).decls,
                !.mark = [NoMark EXCEPT
                            !.kind = "arm", !.id = Head(work).lbl,
                            !.start = Head(work).start - 1,
                            !.sites = Head(work).fix \o
                                        (IF Head(work).lbl2 >= 0
                                         THEN <<Head(work).lbl2>> ELSE <<>>),
                            !.body = Head(work).i, !.jmp = jmp_label]],
             "")

match_end ==
  /\ Want("match_arms")
  /\ Head(work).i = Head(work).n
  /\ LET jmps == Head(work).fix \o (IF ret.n >= 0 THEN <<ret.n>> ELSE <<>>)
         c1 == emit_raise(C, "Couldn't match any clause")
     IN Step("match_end", patch_all(c1, jmps, OpA("Jmp", ip(c1))), Tail(work), NoRet,
             spare,
             [ExprEnd(Head(work).start) EXCEPT
                !.mark = [NoMark EXCEPT !.kind = "Match", !.id = Head(work).lbl,
                                        !.start = Head(work).start, !.tail = ip(C)]],
             "")

(* ------------------------ compile_stmts and stmt ----------------------- *)
compile_stmts ==
  /\ pc = "new"
  /\ "stmts" \in family.entries
  /\ Step0("compile_stmts", [C EXCEPT !.scope_stack = Append(@, Scope)],
           <<[Frame EXCEPT !.k = "stmts"]>>, NoRet, spare, NoSnap, "")
  /\ pc' = "running"
  /\ UNCHANGED <<modules, output, family, vm, host>>

compile_stmts_end ==
  /\ Want("stmts")
  /\ Step0("compile_stmts_end", [C EXCEPT !.scope_stack = SubSeq(@, 1, Len(@) - 1)],
           Tail(work), NoRet, spare,
           [NoSnap EXCEPT !.what = "unit", !.depth = Len(scope_stack)], "")
  /\ output' = [opcodes |-> scope(C).opcodes, constants |-> constants]
  /\ pc' = "done"
  /\ UNCHANGED <<modules, family, vm, host>>

\* the node read next is a statement of this kind with `children` children
Stmt(kind, children) ==
  Want("stmts") /\ kind \in family.stmts /\ spare >= 1 + children

\* self.unique_counter = 0, the last line of stmt
\* a faulty stmt: the counter is left as the statement made it
stmt_reset_keep(c) == c

stmt_reset(c) == [c EXCEPT !.unique_counter = 0]

StmtEnd(kind, start) == [NoSnap EXCEPT !.what = "stmt", !.s = kind, !.start = start]

stmt_Def(bind) ==
  /\ Stmt("Def", 1)
  /\ Step("stmt_Def", C, <<E, [After("stmt_def_end") EXCEPT !.s = bind]>> \o work,
          NoRet, spare - 2, NoSnap, "SDef " \o bind)

stmt_def_end ==
  /\ Want("stmt_def_end")
  /\ Step("stmt_def_end", stmt_reset(emit_op(C, OpS("Savg", Head(work).s))),
          Tail(work), NoRet, spare, StmtEnd("Def", Head(work).start), "")

stmt_Let ==
  /\ Stmt("Let", 2)
  /\ Step("stmt_Let", C, <<E, After("stmt_let_pat")>> \o work,
          NoRet, spare - 3, NoSnap, "SLet")

stmt_let_pat ==
  /\ Want("stmt_let_pat")
  /\ Step("stmt_let_pat", C, <<P(TRUE), Cont("stmt_let_end")>> \o Tail(work), NoRet,
          spare, NoSnap, "")

stmt_let_end ==
  /\ Want("stmt_let_end")
  /\ LET jmp_label == ip(C)
         c1 == emit_op(C, OpA("Jmp", 0))
         c2 == patch_all(c1, ret.labels, OpA("Jmf", ip(c1)))
         c3 == emit_raise(c2, "No match of rhs value")
         c4 == patch(c3, jmp_label, OpA("Jmp", ip(c3)))
     IN Step("stmt_let_end", stmt_reset(c4), Tail(work), NoRet, spare,
             StmtEnd("Let", Head(work).start), "")

(* --------------------------------- type_ ------------------------------- *)
TypeNames == {"T"}

MemberNames == {"f", "A"}

\* names of variants, as their dot-separated segments
VariantNames(decl) == {<<decl, "A">>, <<decl, "B">>}

\* name.as_str().split('.').last().unwrap()
LastSegment(name) == name[Len(name)]

stmt_Type(decl, n) ==
  /\ Stmt("Type", 2 * n)
  /\ Step("stmt_Type", C,
          <<[After("type_members") EXCEPT !.s = decl, !.n = n,
                                          !.depth = Len(scope_stack)]>> \o work,
          NoRet, spare - (1 + 2 * n), NoSnap,
          "SType " \o decl \o " " \o ToString(n))

\* a member is a Def whose value is a Lambda of nargs arguments
type_member(bind, nargs) ==
  /\ Want("type_members")
  /\ Head(work).i < Head(work).n
  /\ spare >= nargs
  /\ Step("type_member", C,
          <<[Frame EXCEPT !.k = "lambda_expr", !.n = nargs],
            [Cont("type_member_ret") EXCEPT !.decls = <<bind>>]>> \o Tail(work),
          NoRet, spare - nargs, NoSnap,
          "Member " \o bind \o " " \o ToString(nargs))

type_member_ret ==
  /\ Want("type_member_ret")
  /\ LET bind == Head(work).decls[1] IN
     Step("type_member_ret", C,
          <<[Cont("type_members") EXCEPT
               !.i = @ + 1, !.decls = <<>>,
               !.tbl = MapPut(@, bind, ret.fn),
               !.mems = Append(@, [name |-> bind, fn |-> ret.fn])]>> \o Tail(work),
          NoRet, spare, NoSnap, "")

type_reserve ==
  /\ Want("type_members")
  /\ Head(work).i = Head(work).n
  /\ LET index == Len(constants)
         placeholder == Len(modules) + 1
     IN /\ Step0("type_reserve",
                 [C EXCEPT !.constants = Append(@, Module(placeholder))],
                 <<[Cont("type_variants") EXCEPT !.lbl = index, !.i = 0]>>
                   \o Tail(work),
                 NoRet, spare, NoSnap, "")
        /\ modules' = Append(modules, DefaultModule)
        /\ UNCHANGED <<pc, output, family, vm, host>>

\* the variants are read one by one, at most MaxArgs + 1 of them; a variant
\* and each of its arguments is a node of the input
Variant(nargs) ==
  /\ Want("type_variants")
  /\ Head(work).i <= MaxArgs
  /\ spare >= 1 + nargs

type_variant_nullary(name) ==
  /\ Variant(0)
  /\ name \in VariantNames(Head(work).s)
  /\ Step("type_variant_nullary", C,
          <<[Head(work) EXCEPT
               !.i = @ + 1,
               !.patch_list = Append(@, [path |-> Join(name),
                                         entry |-> LastSegment(name)]),
               !.vars = Append(@, [name |-> Join(name), short |-> LastSegment(name),
                                   nargs |-> 0])]>> \o Tail(work),
          NoRet, spare - 1, NoSnap, "Variant " \o Join(name) \o " 0")

type_variant_open(name, nargs) ==
  /\ Variant(nargs)
  /\ name \in VariantNames(Head(work).s)
  /\ nargs > 0
  /\ LET c1 == [C EXCEPT !.scope_stack = Append(@, Scope)]
         c2 == emit_ops(c1, <<OpA("Tup", nargs), OpA("Push", Head(work).lbl),
                              OpS("Tag", Join(name))>>)
     IN Step("type_variant_open", c2,
             <<[Head(work) EXCEPT
                  !.k = "type_variant_close", !.i = @ + 1, !.decls = <<LastSegment(name)>>,
                  !.vars = Append(@, [name |-> Join(name), short |-> LastSegment(name),
                                      nargs |-> nargs])]>> \o Tail(work),
             NoRet, spare - 1 - nargs, NoSnap,
             "Variant " \o Join(name) \o " " \o ToString(nargs))

type_variant_close ==
  /\ Want("type_variant_close")
  /\ LET arity == Head(work).vars[Len(Head(work).vars)].nargs
         constructor == Fn(scope(C).opcodes, arity)
     IN Step("type_variant_close",
             [C EXCEPT !.scope_stack = SubSeq(@, 1, Len(@) - 1)],
             <<[Cont("type_variants") EXCEPT
                  !.decls = <<>>,
                  !.tbl = MapPut(@, Head(work).decls[1], constructor)]>> \o Tail(work),
             NoRet, spare, NoSnap, "")

\* fields.insert(entry, Tagged(clone, path, ())) for every entry of patch_list
RECURSIVE patch_fields(_, _, _)
patch_fields(fields, patches, ref) ==
  IF patches = <<>> THEN fields
  ELSE patch_fields(MapPut(fields, Head(patches).entry,
                           Tagged(ref, Head(patches).path)),
                    Tail(patches), ref)

\* a faulty end of type_: the nullary variants are tagged with the place-holder
type_finish_stale ==
  /\ Want("type_variants")
  /\ LET f == Head(work)
         type_ == Len(modules) + 1
         fields == patch_fields(f.tbl, f.patch_list, constants[f.lbl + 1].n)
         c1 == [C EXCEPT !.constants[f.lbl + 1] = Module(type_)]
         c2 == emit_ops(c1, <<OpA("Push", f.lbl), OpS("Savg", f.s)>>)
     IN /\ Step0("type_finish", stmt_reset(c2), Tail(work), NoRet, spare,
                 [StmtEnd(f.s, f.start) EXCEPT !.what = "type", !.index = f.lbl,
                                               !.vars = f.vars, !.mems = f.mems,
                                               !.depth = f.depth],
                 "EndType")
        /\ modules' = Append(modules, [name |-> f.s, fields |-> fields])
        /\ UNCHANGED <<pc, output, family, vm, host>>

\* the end of type_, and the end of stmt for a type declaration
type_finish ==
  /\ Want("type_variants")
  /\ LET f == Head(work)
         type_ == Len(modules) + 1
         fields == patch_fields(f.tbl, f.patch_list, type_)
         c1 == [C EXCEPT !.constants[f.lbl + 1] = Module(type_)]
         c2 == emit_ops(c1, <<OpA("Push", f.lbl), OpS("Savg", f.s)>>)
     IN /\ Step0("type_finish", stmt_reset(c2), Tail(work), NoRet, spare,
                 [StmtEnd(f.s, f.start) EXCEPT !.what = "type", !.index = f.lbl,
                                               !.vars = f.vars, !.mems = f.mems,
                                               !.depth = f.depth],
                 "EndType")
        /\ modules' = Append(modules, [name |-> f.s, fields |-> fields])
        /\ UNCHANGED <<pc, output, family, vm, host>>

(* ------------------------------ the machine --------------------------- *)
\* The machine that runs a returned unit, as far as the claims about what the
\* emitted code does need it: the operand stack, the local slots, the
\* handlers of try, and for every address executed what was on the stack.
\* A call is one step that returns.
Bool(b) == Val("Bool", IF b THEN 1 ELSE 0, IF b THEN "true" ELSE "false", <<>>)

Nil == Val("Nil", 0, "", <<>>)

\* a value the machine does not follow: the result of an unknown callee
Opaque == Val("Any", 0, "", <<>>)

Global(sym) == Val("Global", 0, sym, <<>>)

ListOf(elems) == Val("List", 0, "", elems)

TupleOf(elems) == Val("Tuple", Len(elems), "", elems)

Truthy(v) == ~(v.t = "Nil" \/ (v.t = "Bool" /\ v.n = 0))

\* prelude List.head: the first element, nil for the empty list
prelude_head(xs) == IF xs.t # "List" THEN Opaque ELSE IF xs.body = <<>> THEN Nil ELSE Head(xs.body)

\* prelude List.tail: the list without its first element
prelude_tail(xs) == IF xs.t # "List" THEN Opaque ELSE IF xs.body = <<>> THEN xs ELSE ListOf(Tail(xs.body))

\* the k-th value from the top of the stack
At(m, k) == IF k <= Len(m.stack) THEN m.stack[k] ELSE Opaque

Advance(m) == [m EXCEPT !.ip = @ + 1]

Popped(m, n) == [m EXCEPT !.stack = SubSeq(@, n + 1, Len(@))]

Pushed(m, x) == [m EXCEPT !.stack = <<x>> \o @]

Replaced(m, n, x) == Advance(Pushed(Popped(m, n), x))

\* an exception: control goes to the innermost handler, with the stack cut
\* to its depth at the Try and the two values the handler takes on top
Throw(m) ==
  LET h == Head(m.handlers)
      n == Len(m.stack)
  IN [m EXCEPT !.ip = h.entry,
               !.stack = <<Opaque, Opaque>> \o SubSeq(@, n - h.depth + 1, n),
               !.handlers = Tail(@)]

\* Call(n): the callee is on top, its n arguments below it
Called(m, n, throws) ==
  LET callee == At(m, 1)
      result == IF callee = Global("List.head") /\ n = 1 THEN prelude_head(At(m, 2))
                ELSE IF callee = Global("List.tail") /\ n = 1 THEN prelude_tail(At(m, 2))
                ELSE Opaque
      m1 == [m EXCEPT !.raised = @ \/ callee = Global("raise")]
  IN IF m.handlers # <<>> /\ (callee = Global("raise") \/ throws)
     THEN Throw(m1)
     ELSE Replaced(m1, n + 1, result)

Binary(op, x, y) ==
  IF x.t = "Any" \/ y.t = "Any" THEN Opaque
  ELSE IF op = "Eq" THEN Bool(x = y)
  ELSE IF op = "Add" /\ x.t = "Num" /\ y.t = "Num" THEN Num(x.n + y.n)
  ELSE Opaque

\* the machine after instruction o; choice decides what the model does not
\* follow: the truth of an unknown value, whether an unknown callee throws
Exec(m, o, k, choice) ==
  LET x == At(m, 1)
      y == At(m, 2)
  IN CASE o.op = "Push" -> Advance(Pushed(m, k[o.a + 1]))
       [] o.op = "Pop" -> Advance(Popped(m, 1))
       [] o.op = "Dup" -> Advance(Pushed(m, x))
       [] o.op = "RevN" ->
            Advance([m EXCEPT !.stack =
                       [i \in 1..Len(@) |-> IF i <= o.a /\ o.a <= Len(@)
                                             THEN @[o.a + 1 - i] ELSE @[i]]])
       [] o.op = "Save" -> Advance([Popped(m, 1) EXCEPT !.locals = MapPut(@, o.a, x)])
       [] o.op = "Load" ->
            Advance(Pushed(m, IF o.a \in DOMAIN m.locals THEN m.locals[o.a] ELSE Opaque))
       [] o.op = "Savg" -> Advance(Popped(m, 1))
       [] o.op = "Loag" -> Advance(Pushed(m, Global(o.s)))
       [] o.op = "Jmp" -> [m EXCEPT !.ip = o.a]
       [] o.op = "Jmf" ->
            LET true == IF x.t = "Any" THEN choice ELSE Truthy(x)
            IN [Popped(m, 1) EXCEPT !.ip = IF true THEN @ + 1 ELSE o.a]
       [] o.op \in {"Call", "TCall"} -> Called(m, o.a, choice)
       [] o.op = "Try" ->
            Advance([m EXCEPT !.handlers =
                       <<[entry |-> o.a, depth |-> Len(m.stack)]>> \o @])
       [] o.op = "EndTry" -> Advance([m EXCEPT !.handlers = Tail(@)])
       [] o.op = "Tup" -> Replaced(m, o.a, TupleOf(SubSeq(m.stack, 1, o.a)))
       [] o.op = "TupGet" ->
            Replaced(m, 1, IF x.t = "Tuple" /\ o.a < Len(x.body)
                           THEN x.body[o.a + 1] ELSE Opaque)
       [] o.op = "Tag" -> Replaced(m, 2, Opaque)
       [] o.op \in {"TagOf", "TagTup", "Neg"} -> Replaced(m, 1, Opaque)
       [] o.op = "Ref" ->
            Replaced(m, 1, IF x.t = "Global" THEN Global(x.s \o "." \o o.s) ELSE Opaque)
       [] o.op = "Prep" ->
            Replaced(m, 2, IF x.t = "List" THEN ListOf(<<y>> \o x.body) ELSE Opaque)
       [] o.op = "Len" ->
            Replaced(m, 1, IF x.t \in {"List", "Tuple"} THEN Num(Len(x.body)) ELSE Opaque)
       [] o.op = "Not" -> Replaced(m, 1, IF x.t = "Any" THEN Opaque ELSE Bool(~Truthy(x)))
       [] OTHER -> Replaced(m, 2, Binary(o.op, y, x))

\* the families whose units are run
RunFamilies == {"example", "logic", "matching", "lists", "rescue"}

vm_start ==
  /\ pc = "done"
  /\ family.name \in RunFamilies
  /\ vm.status = "off"
  /\ vm' = [VmOff EXCEPT !.status = "run"]
  /\ UNCHANGED <<scope_stack, constants, unique_counter, modules, work, ret, pc,
                 output, spare, family, last, snap, input, marks, host>>

\* one instruction; seen keeps, for the address executed, the top of the stack
\* and the depth before it, and again whether it was executed before
vm_step(choice) ==
  /\ vm.status = "run"
  /\ LET o == output.opcodes[vm.ip + 1]
         m == Exec(vm, o, output.constants, choice)
     IN vm' = [m EXCEPT
                 !.status = IF m.ip >= Len(output.opcodes) THEN "halted" ELSE "run",
                 !.seen = MapPut(@, vm.ip, [top |-> At(vm, 1),
                                            depth |-> Len(vm.stack),
                                            again |-> vm.ip \in DOMAIN @])]
  /\ UNCHANGED <<scope_stack, constants, unique_counter, modules, work, ret, pc,
                 output, spare, family, last, snap, input, marks, host>>

(* ------------------------------- the import ---------------------------- *)
\* `open <path>` in a unit that has C constants and B instructions so far;
\* the unit opened is the unit that was returned
HostUnit(c, b) ==
  [opcodes |-> [i \in 1..b |-> OpS("Loag", "host")],
   constants |-> [i \in 1..c |-> Str("host" \o ToString(i))]]

\* every Push(i) becomes Push(i + C), every Jmp(off) and Jmf(off) becomes
\* Jmp(off + B) and Jmf(off + B)
Relocate(code, c, b) ==
  [i \in 1..Len(code) |->
     IF code[i].op = "Push" THEN OpA("Push", code[i].a + c)
     ELSE IF code[i].op \in {"Jmp", "Jmf"} THEN OpA(code[i].op, code[i].a + b)
     ELSE code[i]]

\* the constants and the opcodes of the unit after the splice
Splice(unit, import_opcodes, import_constants) ==
  LET c == Len(unit.constants)
      b == Len(unit.opcodes)
  IN [status |-> "spliced", C |-> c, B |-> b,
      constants |-> unit.constants \o
                      [i \in 1..Len(import_constants) |->
                         LET k == import_constants[i]
                         IN IF k.t = "Fn" THEN Fn(Relocate(k.body, c, b), k.n) ELSE k],
      opcodes |-> unit.opcodes \o Relocate(import_opcodes, c, b)]

\* the families whose units are opened
ImportFamilies == {"closures", "control"}

open_file(c, b) ==
  /\ pc = "done"
  /\ family.name \in ImportFamilies
  /\ host.status = "none"
  /\ host' = Splice(HostUnit(c, b), output.opcodes, output.constants)
  /\ UNCHANGED <<scope_stack, constants, unique_counter, modules, work, ret, pc,
                 output, spare, family, last, snap, input, marks, vm>>

(* ------------------------------- the claims ---------------------------- *)
Range(seq) == {seq[i] : i \in 1..Len(seq)}

\* every function value the compilation holds: in the pool, in a finished
\* module, in the table of a type under construction, or just returned
FnValues ==
  {v \in Range(constants) : v.t = "Fn"}
    \cup UNION {{modules[h].fields[k] : k \in DOMAIN modules[h].fields} : h \in 1..Len(modules)}
    \cup UNION {{f.tbl[k] : k \in DOMAIN f.tbl} : f \in Range(work)}
    \cup {ret.fn}

\* the buffers that are complete: function bodies and the returned buffer
FinishedBuffers ==
  {v.body : v \in {w \in FnValues : w.t = "Fn"}}
    \cup (IF pc = "done" THEN {output.opcodes} ELSE {})

\* the buffers under construction
OpenBuffers == {scope_stack[d].opcodes : d \in 1..Len(scope_stack)}

JumpOps == {"Jmp", "Jmf", "Try"}

JumpsInRange(b) ==
  \A i \in 1..Len(b) : b[i].op \in JumpOps => (0 <= b[i].a /\ b[i].a <= Len(b))

\* every jump at an address >= start, but for the addresses in `open`, has
\* been given a target past its own address
PatchedFrom(b, start, open) ==
  \A i \in (start + 1)..Len(b) :
    (b[i].op \in JumpOps /\ (i - 1) \notin open) => b[i].a > i - 1

C2_SlotsContiguous ==
  \A d \in 1..Len(scope_stack) :
    LET h == scope_stack[d].hist
        firsts == {i \in 1..Len(h) : \A j \in 1..(i - 1) : h[j].name # h[i].name}
    IN /\ \A i \in firsts : h[i].slot = Cardinality({j \in firsts : j < i})
       /\ \A i, j \in 1..Len(h) : h[i].slot = h[j].slot => h[i].name = h[j].name

\* C3: when a Let or a match arm has ended, the local map of the current
\* scope is the map of the moment before its pattern was compiled
C3_LocalsRestored ==
  (snap.what = "arm" \/ (snap.what = "expr" /\ snap.s = "Let"))
    => scope(C).locals = snap.saved

PushesInPool(b) ==
  \A i \in 1..Len(b) : b[i].op = "Push" => b[i].a < Len(constants)

\* the pool entry is the placeholder module of a type under construction
IsPlaceholder(v) == v.t = "Module" /\ modules[v.n] = DefaultModule

\* C4: at every point every Push(i) of every buffer has i < |constants|, and
\* no step removes or moves a constant: an entry changes only when the
\* placeholder of a type is replaced by the module of that type
C4_PushInPool ==
  /\ [](\A b \in OpenBuffers \cup FinishedBuffers : PushesInPool(b))
  /\ [][/\ Len(constants') >= Len(constants)
        /\ \A i \in 1..Len(constants) :
             \/ constants'[i] = constants[i]
             \/ IsPlaceholder(constants[i]) /\ constants'[i].t = "Module"]_vars

\* the body of a variant constructor pushes the index of a module that is
\* still the placeholder
C4_Witness ==
  /\ last = "type_variant_open"
  /\ \E i \in 1..Len(scope(C).opcodes) :
       /\ scope(C).opcodes[i].op = "Push"
       /\ IsPlaceholder(constants[scope(C).opcodes[i].a + 1])

\* C5: no two entries of the pool that are not modules are equal, and the
\* module of every finished type declaration has a pool index of its own
C5_Dedup ==
  /\ \A i, j \in 1..Len(constants) :
       (i < j /\ constants[i].t # "Module" /\ constants[j].t # "Module")
         => constants[i] # constants[j]
  /\ \A h \in 1..Len(modules) :
       modules[h] # DefaultModule
         => Cardinality({i \in 1..Len(constants) : constants[i] = Module(h)}) = 1

\* two type declarations hold two pool indices, and a number interned through
\* emit_lit and through emit_const is pushed twice from one entry
C5_Witness ==
  /\ Cardinality({i \in 1..Len(constants) : constants[i].t = "Module"}) = 2
  /\ \E b \in OpenBuffers : \E i, j \in 1..Len(b) :
       /\ i < j
       /\ b[i] = b[j]
       /\ b[i].op = "Push"
       /\ constants[b[i].a + 1].t = "Num"
       /\ last = "pat_Tuple"

(* The operand stack of the companion VM, as far as its depth goes. *)
\* values the VM leaves above the depth of the Try when it enters the handler:
\* the handler starts Pop; Save(bind)
HandlerEntry == 2

BinaryOps == {"Add", "Sub", "Mul", "Div", "Rem", "Eq", "Less", "LessEq",
              "BitAnd", "BitOr", "BitXor", "Shr", "Shl"}

\* change of the stack depth made by one instruction (a call returns)
StackEffect(o) ==
  IF o.op \in {"Push", "Load", "Loag", "Dup"} THEN 1
  ELSE IF o.op \in {"Pop", "Save", "Savg", "Jmf", "Prep", "Tag"} \cup BinaryOps THEN -1
  ELSE IF o.op \in {"Call", "TCall"} THEN 0 - o.a
  ELSE IF o.op = "Tup" THEN 1 - o.a
  ELSE 0

\* where the instruction o at address a sends a stack of depth d
Successors(o, a, d) ==
  IF o.op = "Jmp" THEN {[addr |-> o.a, d |-> d]}
  ELSE IF o.op = "Jmf" THEN {[addr |-> a + 1, d |-> d - 1], [addr |-> o.a, d |-> d - 1]}
  ELSE IF o.op = "Try" THEN {[addr |-> a + 1, d |-> d], [addr |-> o.a, d |-> d + HandlerEntry]}
  ELSE {[addr |-> a + 1, d |-> d + StackEffect(o)]}

\* D[x]: the depths with which address x is reached; addresses a.. are left
RECURSIVE Flow(_, _, _, _)
Flow(code, a, end, D) ==
  IF a >= end THEN D
  ELSE LET out == UNION {Successors(code[a + 1], a, d) : d \in D[a]}
           D1 == [x \in DOMAIN D |-> D[x] \cup {q.d : q \in {r \in out : r.addr = x}}]
       IN Flow(code, a + 1, end, D1)

\* the depths with which the code from address start reaches the end of the
\* buffer, entered with depth 0
ExitDepths(code, start) ==
  Flow(code, start, Len(code),
       [x \in start..Len(code) |-> IF x = start THEN {0} ELSE {}])[Len(code)]

\* no jump of the code from address start leaves it
Closed(code, start) ==
  \A i \in (start + 1)..Len(code) :
    code[i].op \in JumpOps => (i - 1 < code[i].a /\ code[i].a <= Len(code))

\* C6: when an expression of any kind has ended, every path through its code,
\* from its first instruction to the address past its last, has raised the
\* stack depth by exactly one
C6_OneValue ==
  snap.what = "expr" =>
    /\ Closed(scope(C).opcodes, snap.start)
    /\ ExitDepths(scope(C).opcodes, snap.start) = {1}

\* a match with a guarded arm has ended: its code has paths through a fail
\* site, a guard failure and the raise tail
C6_Witness ==
  /\ last = "match_end"
  /\ Cardinality({i \in (snap.start + 1)..Len(scope(C).opcodes) :
                    scope(C).opcodes[i].op = "Jmf"}) >= 2

\* C7: a Var compiles to Load(i) iff the name is in the local map of the
\* innermost scope, with slot i, and to Loag(name) otherwise, whatever the
\* enclosing scopes hold
C7_VarLookup ==
  last = "expr_Var" =>
    LET b == scope(C).opcodes
        locals == scope(C).locals
    IN IF snap.s \in DOMAIN locals
       THEN b[Len(b)] = OpA("Load", locals[snap.s])
       ELSE b[Len(b)] = OpS("Loag", snap.s)

\* inside a lambda body, a name that is a local of the enclosing scope only
C7_Witness ==
  /\ last = "expr_Var"
  /\ Len(scope_stack) = 2
  /\ snap.s \in DOMAIN scope_stack[1].locals
  /\ snap.s \notin DOMAIN scope_stack[2].locals
  /\ scope(C).opcodes[Len(scope(C).opcodes)].op = "Loag"

\* frames of calls that hold a scope they pushed
HoldsScope == {"lambda_args", "lambda_end", "type_variant_close"}

\* C8: while the compiler runs the scope stack is not empty and holds the
\* outer scope and one scope per unfinished lambda_expr or variant
\* constructor; lambda_expr and type_ return with the depth they were entered
\* with; the unit returned is the buffer of the outermost scope and leaves
\* the stack empty
C8_ScopeStack ==
  /\ [](/\ pc = "running" =>
             /\ Len(scope_stack) >= 1
             /\ Len(scope_stack) =
                  1 + Cardinality({i \in 1..Len(work) : work[i].k \in HoldsScope})
        /\ snap.what \in {"lambda", "type"} => Len(scope_stack) = snap.depth
        /\ pc = "done" => scope_stack = <<>>)
  /\ [][(pc # "done" /\ pc' = "done") =>
          /\ Len(scope_stack) = 1
          /\ output'.opcodes = scope_stack[1].opcodes
          /\ output'.constants = constants]_vars

\* a lambda nested in a lambda has returned
C8_Witness ==
  /\ snap.what = "lambda"
  /\ snap.depth = 2
  /\ Len(scope_stack) = 2

\* what type_ leaves for the declaration that has just ended
TypeModule ==
  LET idx == snap.index
      v == constants[idx + 1]
      M == modules[v.n]
      b == scope(C).opcodes
  IN /\ v.t = "Module"
     /\ M.name = snap.s
     /\ \A m \in Range(snap.mems) :
          m.name \in DOMAIN M.fields /\ M.fields[m.name] = m.fn
     /\ \A x \in Range(snap.vars) :
          /\ x.short \in DOMAIN M.fields
          /\ M.fields[x.short] =
               IF x.nargs > 0
               THEN Fn(<<OpA("Tup", x.nargs), OpA("Push", idx), OpS("Tag", x.name)>>,
                       x.nargs)
               ELSE Tagged(v.n, x.name)
     /\ Len(b) >= 2
     /\ b[Len(b) - 1] = OpA("Push", idx)
     /\ b[Len(b)] = OpS("Savg", snap.s)

\* the names of the members and the last segments of the variants differ
DistinctFields ==
  LET keys == [i \in 1..Len(snap.mems) |-> snap.mems[i].name]
                \o [i \in 1..Len(snap.vars) |-> snap.vars[i].short]
  IN \A i, j \in 1..Len(keys) : i # j => keys[i] # keys[j]

\* C9 as stated: every type declaration leaves, at one index, a module with
\* every member, a constructor Tup(n); Push(index); Tag(name) for every variant
\* with arguments and a Tagged of that same module for every variant without
C9_TypeModule_Stated == snap.what = "type" => TypeModule

\* C9, amended: the same, for a declaration whose member names and variant
\* last segments are pairwise distinct
C9_TypeModule == (snap.what = "type" /\ DistinctFields) => TypeModule

\* a declaration with a member, a constructor and a nullary variant ended
C9_Witness ==
  /\ snap.what = "type"
  /\ DistinctFields
  /\ Len(snap.mems) >= 1
  /\ \E i, j \in 1..Len(snap.vars) : snap.vars[i].nargs > 0 /\ snap.vars[j].nargs = 0

\* C10: after every top-level statement the unique-name counter is 0
C10_CounterReset == snap.what \in {"stmt", "type"} => unique_counter = 0

\* a top-level statement that made a temporary has ended
C10_Witness ==
  /\ snap.what = "stmt"
  /\ "#1" \in DOMAIN scope(C).locals
  /\ unique_counter = 0

(* `let x = 1 in x + 2` *)
LetExample == <<"Let", "Lit Num:1", "PId x", "Binary Add", "Var x", "Lit Num:2">>

LetExampleCode ==
  <<OpA("Push", 0), OpA("Save", 0), OpA("Load", 0), OpA("Push", 1), Op("Add"),
    OpA("Jmp", 10),
    OpA("Push", 2), OpA("Push", 3), OpS("Loag", "raise"), OpA("Call", 2)>>

\* C11 as stated: compiling `let x = 1 in x + 2` yields the pool [1, 2] and
\* Push(0); Save(0); Load(0); Push(1); Add; Jmp(end); the raise tail; end
C11_LetExample_Stated ==
  (pc = "done" /\ input = LetExample) =>
    /\ output.constants = <<Num(1), Num(2)>>
    /\ output.opcodes = LetExampleCode

\* C11, amended: the pool is [1, 2, "No match of rhs value", MatchError], the
\* two constants of the raise tail included, and the opcodes are as stated,
\* the tail being Push(2); Push(3); Loag(raise); Call(2) and end = 10
C11_LetExample ==
  (pc = "done" /\ input = LetExample) =>
    /\ output.constants =
         <<Num(1), Num(2), Str("No match of rhs value"), Sym("MatchError")>>
    /\ output.opcodes = LetExampleCode

\* `let x = 1 in x + 2` has been compiled
C11_Witness == pc = "done" /\ input = LetExample

\* the and/or constructs of the unit that is run
Junctions ==
  {i \in 1..Len(marks) : marks[i].depth = 1 /\ marks[i].kind \in {"And", "Or"}}

\* the value of the left operand of junction m, once its test was executed:
\* the test of an And sees a copy of it, the Not of an Or sees a copy of it
LeftValue(m) == vm.seen[IF m.kind = "And" THEN m.site ELSE m.site - 1].top

\* whether the right operand of junction m is to run
RunsRight(m) == IF m.kind = "And" THEN Truthy(LeftValue(m)) ELSE ~Truthy(LeftValue(m))

\* C12: once the test of `a and b` (`a or b`) was executed, the code of b is
\* executed iff a was truthy (falsy); when b is skipped control is at the end
\* of the construct with the value of a as the one value added to the stack;
\* no instruction, so none of a, is executed twice
C12_ShortCircuit ==
  (pc = "done" /\ family.name = "logic") =>
    /\ \A addr \in DOMAIN vm.seen : ~vm.seen[addr].again
    /\ \A i \in Junctions :
         LET m == marks[i]
             b == m.site + 2
         IN m.site \in DOMAIN vm.seen =>
              /\ m.start \in DOMAIN vm.seen
              /\ b \in DOMAIN vm.seen => RunsRight(m)
              /\ RunsRight(m) => (b \in DOMAIN vm.seen \/ vm.ip \in {m.site + 1, b})
              /\ ~RunsRight(m) => vm.ip >= m.end
              /\ (~RunsRight(m) /\ vm.ip = m.end) =>
                    /\ At(vm, 1) = LeftValue(m)
                    /\ Len(vm.stack) = vm.seen[m.start].depth + 1

\* an `and` whose left operand was falsy and an `or` whose left operand was
\* falsy have been run: one right operand skipped, one executed
C12_Witness ==
  /\ vm.status = "halted"
  /\ \E i, j \in Junctions :
       /\ marks[i].kind = "And" /\ marks[i].site \in DOMAIN vm.seen
       /\ ~RunsRight(marks[i])
       /\ marks[j].kind = "Or" /\ marks[j].site \in DOMAIN vm.seen
       /\ RunsRight(marks[j]) /\ (marks[j].site + 2) \in DOMAIN vm.seen

\* instruction i of a buffer that the splice moved by b addresses, on, was op
\* before: a Push denotes the constant it denoted, a Jmp or Jmf targets the
\* instruction it targeted
SameAfter(on, op, b) ==
  /\ on.op = op.op
  /\ op.op = "Push" =>
        \E k \in {host.constants[on.a + 1]} :
          LET was == output.constants[op.a + 1]
          IN IF was.t = "Fn" THEN k.t = "Fn" /\ k.n = was.n ELSE k = was
  /\ op.op \in {"Jmp", "Jmf"} => on.a - b = op.a

\* C13: after the splice every Push of the imported top-level code and of the
\* bodies of the imported functions denotes the constant it denoted in the
\* imported unit, and every Jmp and Jmf targets the instruction it targeted:
\* the top-level code has moved by B addresses, a function body has not moved
C13_Relocation ==
  host.status = "spliced" =>
    /\ \A i \in 1..Len(output.opcodes) :
         SameAfter(host.opcodes[host.B + i], output.opcodes[i], host.B)
    /\ \A j \in 1..Len(output.constants) :
         output.constants[j].t = "Fn" =>
           \A i \in 1..Len(output.constants[j].body) :
             SameAfter(host.constants[host.C + j].body[i],
                       output.constants[j].body[i], 0)

\* the buffer a mark lies in: an open scope's, or the returned unit's
BufferOf(m) ==
  IF m.depth <= Len(scope_stack) THEN scope_stack[m.depth].opcodes ELSE output.opcodes

\* the match constructs that have ended in a buffer not yet dropped
Matches == {i \in 1..Len(marks) : marks[i].kind = "Match"}

\* the arms of match m, in source order
ArmsOf(m) ==
  SelectSeq(marks, LAMBDA a : a.kind = "arm" /\ a.id = m.id /\ a.depth = m.depth)

\* where a failing arm k of match m is to continue: the Load that starts the
\* next arm, or the raise tail after the last arm
NextArm(m, k) == IF k < Len(ArmsOf(m)) THEN ArmsOf(m)[k + 1].start ELSE m.tail

\* the jumps of match m are as claimed
ArmJumps(m) ==
  LET code == BufferOf(m)
      arms == ArmsOf(m)
  IN /\ Len(arms) >= 1
     /\ arms[1].start = m.id + 3
     /\ m.tail = arms[Len(arms)].end
     /\ SubSeq(code, m.tail + 3, m.tail + 4) = <<OpS("Loag", "raise"), OpA("Call", 2)>>
     /\ m.end = m.tail + 4
     /\ \A k \in 1..Len(arms) :
          /\ \A s \in 1..Len(arms[k].sites) :
               code[arms[k].sites[s] + 1] = OpA("Jmf", NextArm(m, k))
          /\ k < Len(arms) =>
               /\ code[NextArm(m, k) + 1].op = "Load"
               /\ code[NextArm(m, k) + 1] = code[arms[1].start + 1]
          /\ code[arms[k].jmp + 1] = OpA("Jmp", m.end)
          /\ arms[k].end = arms[k].jmp + 1

\* the arms of match m of the unit that is run are tried in order, at most
\* one body is entered, and the raise tail is entered iff no body is
ArmsInOrder(m) ==
  LET arms == ArmsOf(m)
      seen == DOMAIN vm.seen
      entered == {k \in 1..Len(arms) : arms[k].body \in seen}
  IN /\ Cardinality(entered) <= 1
     /\ \A k \in 2..Len(arms) :
          arms[k].start \in seen =>
            arms[k - 1].start \in seen /\ (k - 1) \notin entered
     /\ m.tail \in seen =>
          entered = {} /\ arms[Len(arms)].start \in seen
     /\ (m.id \in seen /\ vm.ip >= m.end /\ entered = {}) => m.tail \in seen
     /\ \A k \in entered : arms[k].start \in seen

\* C14: in a compiled match every fail site and the guard Jmf of an arm
\* target the Load that starts the next arm, those of the last arm the start
\* of the raise tail, and the Jmp that ends an arm targets the address past
\* the raise tail; so, run, the arms are tried in order, at most one body
\* runs, and the raise tail runs iff no arm succeeds
C14_MatchArms ==
  \A i \in Matches :
    /\ ArmJumps(marks[i])
    /\ (vm.status # "off" /\ marks[i].depth = 1) => ArmsInOrder(marks[i])

\* a match of two arms has been run: the first arm failed at a fail site and
\* the second arm was tried next
C14_Witness ==
  /\ vm.status = "halted"
  /\ \E i \in Matches :
       /\ marks[i].depth = 1 /\ Len(ArmsOf(marks[i])) = 2
       /\ ArmsOf(marks[i])[1].sites # <<>>
       /\ ArmsOf(marks[i])[1].body \notin DOMAIN vm.seen
       /\ ArmsOf(marks[i])[2].start \in DOMAIN vm.seen

\* the depths with which the code from address start, entered with the
\* matchee as depth 0, arrives at address a
DepthsAt(code, start, a) ==
  Flow(code, start, Len(code),
       [x \in start..Len(code) |-> IF x = start THEN {0} ELSE {}])[a]

\* C15: when a pattern of any kind, nested or not, has ended, the stack depth
\* on falling through its code and the depth on arrival at the target of each
\* of its fail sites are one less than the depth at its start
C15_PatternConsumes ==
  snap.what = "pat" =>
    /\ ExitDepths(scope(C).opcodes, snap.start) = {-1}
    /\ \A s \in 1..Len(ret.labels) :
         /\ snap.start <= ret.labels[s] /\ ret.labels[s] < ip(C)
         /\ scope(C).opcodes[ret.labels[s] + 1].op = "Jmf"
         /\ {d - 1 : d \in DepthsAt(scope(C).opcodes, snap.start, ret.labels[s])} = {-1}
    /\ \A a \in snap.start..(ip(C) - 1) :
         scope(C).opcodes[a + 1].op \in JumpOps =>
           \E s \in 1..Len(ret.labels) : ret.labels[s] = a

\* a variant pattern with a nested literal pattern has ended: three fail
\* sites, one of them of the nested pattern
C15_Witness ==
  /\ last = "variant_end"
  /\ Len(ret.labels) >= 3

\* frames of a let or a match arm whose body, or guard, is being compiled
BodyFrames == {"let_end", "arm_end", "arm_guard_jmf"}

\* the frames in w of the lets and arms that enclose the expression being
\* compiled, in the function being compiled, that bind name; innermost first
Binders(w, name) ==
  SelectSeq([i \in 1..Len(w) |->
               IF \E j \in 1..i : w[j].k \in HoldsScope THEN Frame ELSE w[i]],
            LAMBDA f : f.k \in BodyFrames /\ name \in Range(f.decls))

\* the slots of the names other than name that the lets and arms enclosing
\* the expression being compiled have bound
SlotsInScope(w, name) ==
  {w[i].bound[n] : <<i, n>> \in
     {<<i, n>> \in (1..Len(w)) \X family.names :
        /\ w[i].k \in BodyFrames /\ n \in Range(w[i].decls) /\ n # name
        /\ ~\E j \in 1..i : w[j].k \in HoldsScope}}

\* a reference to a name that an enclosing let or arm bound is compiled to a
\* Load of the slot the pattern saved it to
LoadsBound ==
  (Want("expr") /\ last' = "expr_Var" /\ Binders(Tail(work), snap'.s) # <<>>) =>
    scope_stack'[Len(scope_stack')].opcodes[Len(scope(C).opcodes) + 1] =
      OpA("Load", Head(Binders(Tail(work), snap'.s)).bound[snap'.s])

\* a name that becomes bound does not receive the slot of another name bound
\* by an enclosing let or arm
FreshSlot ==
  (/\ pc = "running" /\ pc' = "running"
   /\ Len(scope_stack') = Len(scope_stack)
   /\ Len(scope_stack'[Len(scope_stack')].hist) = Len(scope(C).hist) + 1) =>
    LET h == scope_stack'[Len(scope_stack')].hist[Len(scope(C).hist) + 1]
    IN h.slot \notin SlotsInScope(work, h.name)

\* C16: in the body of a let or a match arm every reference to a name the
\* pattern bound compiles to a Load of the slot the pattern saved it to, also
\* after a nested let or arm that binds the same name has ended; and a
\* binding made in the body never receives the slot of another name that an
\* enclosing let or arm holds
C16_LexicalSlots == [][LoadsBound /\ FreshSlot]_vars

\* the arms of the unit that is run whose pattern is a cons pattern: after
\* the Load of the matchee, Save(#N); Load(#N); Loag(List); Ref(head)
ConsArms ==
  {i \in 1..Len(marks) :
     /\ marks[i].kind = "arm" /\ marks[i].depth = 1
     /\ marks[i].start + 5 <= Len(output.opcodes)
     /\ output.opcodes[marks[i].start + 2].op = "Save"
     /\ output.opcodes[marks[i].start + 4] = OpS("Loag", "List")
     /\ output.opcodes[marks[i].start + 5] = OpS("Ref", "head")}

\* C17: when the matchee of an arm with a cons pattern is the empty list the
\* body of the arm is not entered
C17_ConsNonEmpty ==
  (pc = "done" /\ vm.status # "off") =>
    \A i \in ConsArms :
      ((marks[i].start + 1) \in DOMAIN vm.seen
         /\ vm.seen[marks[i].start + 1].top = EmptyList)
        => marks[i].body \notin DOMAIN vm.seen

\* every instruction of buffer b hands control only to a greater address of b
\* or to its end
ForwardOnly(b) ==
  \A a \in 0..(Len(b) - 1) :
    \A q \in Successors(b[a + 1], a, 0) : a < q.addr /\ q.addr <= Len(b)

\* C18: in every finished buffer every Jmp, Jmf and Try, as every other
\* instruction, leads only forward; so a run of the returned unit, a call
\* being one step, has executed only addresses below the current one, none
\* twice, and after at most as many steps as the buffer has instructions it
\* is at the end of the buffer
C18_ForwardTerminates ==
  /\ \A b \in FinishedBuffers : ForwardOnly(b)
  /\ vm.status # "off" =>
       /\ \A a \in DOMAIN vm.seen : a < vm.ip /\ ~vm.seen[a].again
       /\ vm.ip <= Len(output.opcodes)
       /\ vm.status = "halted" <=> vm.ip = Len(output.opcodes)
       /\ vm.status = "run" => ENABLED vm_step(TRUE)

\* a unit with a try has been run to its end: the body threw, the handler
\* was entered and the rest of the body was skipped
C18_Witness ==
  /\ vm.status = "halted"
  /\ \E a \in DOMAIN vm.seen :
       /\ output.opcodes[a + 1].op = "Try"
       /\ output.opcodes[a + 1].a \in DOMAIN vm.seen
       /\ \E p \in (a + 1)..(output.opcodes[a + 1].a - 1) : p \notin DOMAIN vm.seen

Next ==
  \/ compile_expr
  \/ compile_expr_end
  \/ compile_stmts
  \/ compile_stmts_end
  \/ \E c, b \in 0..1 : open_file(c, b)
  \/ vm_start
  \/ \E choice \in BOOLEAN : vm_step(choice)
  \/ \E bind \in family.names : stmt_Def(bind)
  \/ stmt_def_end
  \/ stmt_Let
  \/ stmt_let_pat
  \/ stmt_let_end
  \/ \E decl \in TypeNames, n \in 0..MaxArgs : stmt_Type(decl, n)
  \/ \E bind \in MemberNames, nargs \in 0..MaxArgs : type_member(bind, nargs)
  \/ type_member_ret
  \/ type_reserve
  \/ \E decl \in TypeNames : \E name \in VariantNames(decl) :
       type_variant_nullary(name)
  \/ \E decl \in TypeNames : \E name \in VariantNames(decl), nargs \in 1..MaxArgs :
       type_variant_open(name, nargs)
  \/ type_variant_close
  \/ type_finish
  \/ \E lit \in family.lits : expr_Lit(lit)
  \/ \E name \in family.names : expr_Var(name)
  \/ \E n \in 0..MaxArgs : expr_Lambda(n)
  \/ lambda_expr
  \/ lambda_arg
  \/ lambda_body
  \/ lambda_end
  \/ expr_Lambda_ret
  \/ \E n \in 0..MaxArgs, tail \in BOOLEAN : expr_App(n, tail)
  \/ app_arg
  \/ app_callee
  \/ app_end
  \/ expr_If
  \/ if_then
  \/ if_else
  \/ if_end
  \/ \E n \in 1..MaxArgs : expr_Match(n)
  \/ match_start
  \/ \E guard \in BOOLEAN : match_arm(guard)
  \/ arm_guard
  \/ arm_guard_jmf
  \/ arm_body
  \/ arm_end
  \/ match_end
  \/ expr_Let
  \/ let_pat
  \/ let_body
  \/ let_end
  \/ \E bind \in family.names : expr_Def(bind)
  \/ def_save
  \/ def_end
  \/ expr_And
  \/ and_test
  \/ and_end
  \/ expr_Or
  \/ or_test
  \/ or_end
  \/ \E op \in BinOps : expr_Binary(op)
  \/ binary_right
  \/ binary_end
  \/ \E n \in 0..MaxArgs : expr_List(n)
  \/ list_elem
  \/ list_end
  \/ expr_Cons
  \/ cons_tail
  \/ cons_end
  \/ \E op \in UnOps : expr_UnOp(op)
  \/ unop_end
  \/ \E method \in Methods : expr_MethodRef(method)
  \/ methodref_end
  \/ \E bind \in family.names : expr_Try(bind)
  \/ try_rescue
  \/ try_end
  \/ \E n \in 0..MaxArgs : expr_Tuple(n)
  \/ tuple_elem
  \/ tuple_end
  \/ \E lt \in family.lits : pat_Lit(lt)
  \/ \E id \in family.names : pat_Id(id)
  \/ pat_Wild
  \/ \E path \in VariantPaths, n \in 0..MaxArgs : pat_Variant(path, n)
  \/ variant_arg
  \/ variant_end
  \/ \E n \in 0..MaxArgs : pat_Tuple(n)
  \/ tuple_arg
  \/ tuple_args_end
  \/ pat_List
  \/ list_tail
  \/ list_pat_end
  \/ pat_EmptyList

Spec == Init /\ [][Next]_vars
====
